---- MODULE Spec2Model ----
(***************************************************************************)
(* A model of the GNU-style command-line parser of pschou/go-params        *)
(* (params.go): the flag registry (FlagSet), registration (Var), and the   *)
(* tokenizer/resolver loop (Parse, parseOne, parseFlagArg).                *)
(*                                                                         *)
(* A Go string is modelled as a sequence of code points, each written as   *)
(* a one-character TLA+ string: "-p=v" is <<"-", "p", "=", "v">>.  The     *)
(* characters the scanner tests ('-', '=', ' ') are ASCII, so a byte test  *)
(* at a code point boundary is the same test on the code point.            *)
(***************************************************************************)
EXTENDS Integers, Sequences, FiniteSets, TLC

(***************************************************************************)
(* Bounds of the model.                                                    *)
(***************************************************************************)
MaxArgs == 2        \* longest argument list handed to Parse
MaxHelp == 2        \* implicit help requests made in one process

(***************************************************************************)
(* Strings                                                                 *)
(***************************************************************************)
Empty == <<>>

Tail2(s) == SubSeq(s, 3, Len(s))

From(s, i) == SubSeq(s, i, Len(s))

\* rlen: the number of code points of s.
rlen(s) == Len(s)

RECURSIVE splitOnLoop(_, _, _, _, _, _)
splitOnLoop(str, c, count, i, line, out) ==
    IF i > Len(str)
    THEN [out |-> IF Len(line) > 0 THEN Append(out, line) ELSE out,
          hang |-> FALSE]
    ELSE IF str[i] = c
         THEN IF Len(line) = 0
              THEN \* `continue` without advancing i: the loop never ends
                   [out |-> out, hang |-> TRUE]
              ELSE LET out2 == Append(out, line)
                       rest == From(str, i + 1)
                   IN IF Len(out2) = count - 1
                      THEN [out |-> IF Len(rest) > 0
                                    THEN Append(out2, rest) ELSE out2,
                            hang |-> FALSE]
                      ELSE splitOnLoop(str, c, count, i + 1, Empty, out2)
         ELSE splitOnLoop(str, c, count, i + 1, Append(line, str[i]), out)

\* splitOn(str, c, count): the parts of str separated by c, at most count
\* of them when count > 0; hang tells that the loop does not terminate.
splitOn(str, c, count) == splitOnLoop(str, c, count, 1, Empty, <<>>)

(***************************************************************************)
(* Errors.  An error value is a record; id is the identity of a value made *)
(* by errors.New (0 for the errors made by fmt.Errorf, which the package   *)
(* never compares by identity).  label lists the display labels that the   *)
(* text carries, flag is the flag as flagWithMinus prints it, input the    *)
(* raw value tokens and cause the underlying error of Value.Set.           *)
(***************************************************************************)
NoErr == [kind |-> "nil", id |-> 0, label |-> <<>>, flag |-> Empty,
          input |-> <<>>, cause |-> "nil"]

\* fmt.Errorf as failf and parseOne use it.
Errorf(kind, label, flag, input, cause) ==
    [kind |-> kind, id |-> 0, label |-> <<label>>, flag |-> flag,
     input |-> input, cause |-> cause]

\* var ErrHelp = errors.New("help requested")
ErrHelpInit == [kind |-> "help", id |-> 1, label |-> <<>>, flag |-> Empty,
                input |-> <<>>, cause |-> "nil"]

\* errors.New(fmt.Sprintf("%v: %v", f.FlagKnownAs, ErrHelp.Error())): a new
\* error value whose text is the old text behind the label.
NewHelpError(label, old) ==
    [old EXCEPT !.id = old.id + 1, !.label = <<label>> \o old.label]

\* ErrorHandling
ContinueOnError == 0
ExitOnError == 1
PanicOnError == 2

(***************************************************************************)
(* Numbers.  A natural number is the sequence of its 16 bit limbs, the low *)
(* one first and the high one not 0; an integer of a width is a word: the  *)
(* limbs of its two's complement, width / 16 of them.                      *)
(***************************************************************************)
Limb == 65536

\* x * k + c, for small k > 0 and c
RECURSIVE MulAdd(_, _, _)
MulAdd(x, k, c) ==
    IF x = <<>>
    THEN IF c = 0 THEN <<>> ELSE <<c % Limb>> \o MulAdd(<<>>, k, c \div Limb)
    ELSE LET t == x[1] * k + c
         IN <<t % Limb>> \o MulAdd(Tail(x), k, t \div Limb)

\* x without its high limbs that are 0
RECURSIVE Trim(_)
Trim(x) ==
    IF x = <<>> \/ x[Len(x)] # 0 THEN x ELSE Trim(SubSeq(x, 1, Len(x) - 1))

\* x < y
RECURSIVE BigLess(_, _)
BigLess(x, y) ==
    IF Len(x) # Len(y) THEN Len(x) < Len(y)
    ELSE IF x = <<>> THEN FALSE
    ELSE IF x[Len(x)] # y[Len(y)] THEN x[Len(x)] < y[Len(y)]
    ELSE BigLess(Trim(SubSeq(x, 1, Len(x) - 1)),
                 Trim(SubSeq(y, 1, Len(y) - 1)))

\* x + y + c
RECURSIVE BigAdd(_, _, _)
BigAdd(x, y, c) ==
    IF x = <<>> /\ y = <<>> THEN (IF c = 0 THEN <<>> ELSE <<c>>)
    ELSE LET a == IF x = <<>> THEN 0 ELSE x[1]
             b == IF y = <<>> THEN 0 ELSE y[1]
             t == a + b + c
         IN <<t % Limb>> \o BigAdd(IF x = <<>> THEN x ELSE Tail(x),
                                   IF y = <<>> THEN y ELSE Tail(y),
                                   t \div Limb)

\* The quotient and the remainder of (r, x) by the small k, r < k being
\* the remainder carried in from above.
RECURSIVE DivMod(_, _, _)
DivMod(x, k, r) ==
    IF x = <<>> THEN [q |-> <<>>, r |-> r]
    ELSE LET cur == r * Limb + x[Len(x)]
             low == DivMod(SubSeq(x, 1, Len(x) - 1), k, cur % k)
         IN [q |-> Trim(low.q \o <<cur \div k>>), r |-> low.r]

\* The word of n limbs of the natural number x (its low n limbs).
ToWord(x, n) == [i \in 1..n |-> IF i <= Len(x) THEN x[i] ELSE 0]

\* w + 1 in the width of the word w
RECURSIVE AddOne(_)
AddOne(w) ==
    IF w = <<>> THEN <<>>
    ELSE IF w[1] = Limb - 1 THEN <<0>> \o AddOne(Tail(w))
    ELSE <<w[1] + 1>> \o Tail(w)

\* -w in the width of the word w
NegWord(w) == AddOne([i \in 1..Len(w) |-> Limb - 1 - w[i]])

IsNegative(w) == w[Len(w)] >= Limb \div 2

\* The conversion of an integer to a narrower one keeps the low limbs.
Truncate(w, bits) == SubSeq(w, 1, bits \div 16)

Two63 == <<0, 0, 0, 32768>>

MaxInt64 == <<65535, 65535, 65535, 32767>>

MaxUint64 == <<65535, 65535, 65535, 65535>>

\* The word of width bits of the small natural number n.
FromNat(n, bits) == ToWord(MulAdd(<<>>, 1, n), bits \div 16)

DigitChars ==
    <<"0", "1", "2", "3", "4", "5", "6", "7", "8", "9",
      "a", "b", "c", "d", "e", "f">>

UpperChars == <<"A", "B", "C", "D", "E", "F">>

\* The value of the digit c, -1 when c is no digit.
DigitVal(c) ==
    IF \E i \in 1..16 : DigitChars[i] = c
    THEN (CHOOSE i \in 1..16 : DigitChars[i] = c) - 1
    ELSE IF \E i \in 1..6 : UpperChars[i] = c
    THEN (CHOOSE i \in 1..6 : UpperChars[i] = c) + 9
    ELSE -1

\* The decimal digits of the natural number x, none for 0.
RECURSIVE FormatDigits(_)
FormatDigits(x) ==
    IF x = <<>> THEN <<>>
    ELSE LET Digits(d) == FormatDigits(d.q) \o <<DigitChars[d.r + 1]>>
         IN Digits(DivMod(x, 10, 0))

FormatNat(x) == IF x = <<>> THEN <<"0">> ELSE FormatDigits(x)

\* fmt.Sprintf("%v", i) for the signed or unsigned integer of the word w
FormatInt(w, signed) ==
    IF signed /\ IsNegative(w)
    THEN <<"-">> \o FormatNat(Trim(NegWord(w)))
    ELSE FormatNat(Trim(w))

\* The loop of strconv.ParseUint over the digits of s from the i-th on, in
\* the base given: a code point that is no digit of the base is a syntax
\* error, and a number above the greatest uint64 a range error, whichever
\* comes first.  (No input of the model holds the separator _.)
RECURSIVE ParseDigits(_, _, _, _)
ParseDigits(s, i, base, acc) ==
    IF i > Len(s) THEN [val |-> acc, err |-> "nil"]
    ELSE LET Digit(d) ==
                 LET Next(n) ==
                         IF BigLess(MaxUint64, n)
                         THEN [val |-> MaxUint64, err |-> "range"]
                         ELSE ParseDigits(s, i + 1, base, n)
                 IN IF d < 0 \/ d >= base
                    THEN [val |-> <<>>, err |-> "syntax"]
                    ELSE Next(MulAdd(acc, base, d))
         IN Digit(DigitVal(s[i]))

\* strconv.ParseUint(s, 0, 64): the natural number and the error.
ParseUint(s) ==
    IF s = <<>> THEN [val |-> <<>>, err |-> "syntax"]
    ELSE IF s[1] = "0"
    THEN IF Len(s) >= 3 /\ s[2] \in {"b", "B"} THEN ParseDigits(s, 3, 2, <<>>)
         ELSE IF Len(s) >= 3 /\ s[2] \in {"o", "O"}
         THEN ParseDigits(s, 3, 8, <<>>)
         ELSE IF Len(s) >= 3 /\ s[2] \in {"x", "X"}
         THEN ParseDigits(s, 3, 16, <<>>)
         ELSE ParseDigits(s, 2, 8, <<>>)
    ELSE ParseDigits(s, 1, 10, <<>>)

\* strconv.ParseInt(s, 0, 64): the int64 as a word and the error.  Out of
\* range the result is the nearest int64.
ParseInt(s) ==
    IF s = <<>> THEN [val |-> ToWord(<<>>, 4), err |-> "syntax"]
    ELSE LET Signed(neg, u) ==
                 IF u.err = "syntax"
                 THEN [val |-> ToWord(<<>>, 4), err |-> "syntax"]
                 ELSE IF ~neg /\ ~BigLess(u.val, Two63)
                 THEN [val |-> ToWord(MaxInt64, 4), err |-> "range"]
                 ELSE IF neg /\ BigLess(Two63, u.val)
                 THEN [val |-> ToWord(Two63, 4), err |-> "range"]
                 ELSE [val |-> IF neg THEN NegWord(ToWord(u.val, 4))
                               ELSE ToWord(u.val, 4),
                       err |-> "nil"]
         IN Signed(s[1] = "-",
                   ParseUint(IF s[1] \in {"+", "-"} THEN Tail(s) ELSE s))

\* strconv.ParseBool(str)
ParseBool(str) ==
    IF str \in { <<"1">>, <<"t">>, <<"T">>, <<"T", "R", "U", "E">>,
                 <<"t", "r", "u", "e">>, <<"T", "r", "u", "e">> }
    THEN [val |-> TRUE, err |-> "nil"]
    ELSE IF str \in { <<"0">>, <<"f">>, <<"F">>, <<"F", "A", "L", "S", "E">>,
                      <<"f", "a", "l", "s", "e">>, <<"F", "a", "l", "s", "e">> }
    THEN [val |-> FALSE, err |-> "nil"]
    ELSE [val |-> FALSE, err |-> "syntax"]

(***************************************************************************)
(* Durations, in nanoseconds.                                              *)
(***************************************************************************)
\* The unit at the head of s: its length and the small factors of its size
\* in nanoseconds; length 0 when there is no unit.
DurationUnit(s) ==
    IF Len(s) >= 2 /\ SubSeq(s, 1, 2) = <<"n", "s">>
    THEN [len |-> 2, factors |-> <<>>]
    ELSE IF Len(s) >= 2 /\ SubSeq(s, 1, 2) = <<"u", "s">>
    THEN [len |-> 2, factors |-> <<1000>>]
    ELSE IF Len(s) >= 2 /\ SubSeq(s, 1, 2) = <<"m", "s">>
    THEN [len |-> 2, factors |-> <<1000, 1000>>]
    ELSE IF Len(s) >= 1 /\ s[1] = "s"
    THEN [len |-> 1, factors |-> <<1000, 1000, 1000>>]
    ELSE IF Len(s) >= 1 /\ s[1] = "m"
    THEN [len |-> 1, factors |-> <<1000, 1000, 1000, 60>>]
    ELSE IF Len(s) >= 1 /\ s[1] = "h"
    THEN [len |-> 1, factors |-> <<1000, 1000, 1000, 60, 60>>]
    ELSE [len |-> 0, factors |-> <<>>]

RECURSIVE MulAll(_, _)
MulAll(x, factors) ==
    IF factors = <<>> THEN x
    ELSE MulAll(MulAdd(x, Head(factors), 0), Tail(factors))

\* The number of decimal digits at the head of s.
RECURSIVE LeadingDigits(_)
LeadingDigits(s) ==
    IF s = <<>> \/ DigitVal(s[1]) < 0 \/ DigitVal(s[1]) > 9 THEN 0
    ELSE 1 + LeadingDigits(Tail(s))

\* The loop of time.ParseDuration over the parts "digits unit" of s, d being
\* the sum of the parts before: the sum, or an error.  (No input of the
\* model holds a fraction.)
RECURSIVE DurationParts(_, _)
DurationParts(s, d) ==
    IF s = <<>> THEN [val |-> d, err |-> "nil"]
    ELSE LET Part(n) ==
                 LET Unit(v, rest, u) ==
                         LET Sum(sum) ==
                                 IF n = 0 \/ v.err # "nil" \/ u.len = 0
                                    \/ BigLess(Two63, sum)
                                 THEN [val |-> <<>>, err |-> "syntax"]
                                 ELSE DurationParts(From(rest, u.len + 1),
                                                    sum)
                         IN Sum(BigAdd(d, MulAll(v.val, u.factors), 0))
                 IN Unit(ParseDigits(SubSeq(s, 1, n), 1, 10, <<>>),
                         From(s, n + 1), DurationUnit(From(s, n + 1)))
         IN Part(LeadingDigits(s))

\* time.ParseDuration(s): the int64 of the nanoseconds as a word, and the
\* error, with which the duration is 0.
ParseDuration(s) ==
    LET Signed(neg, t) ==
            LET Sum(p) ==
                    IF t = <<"0">> THEN [val |-> ToWord(<<>>, 4), err |-> "nil"]
                    ELSE IF t = <<>> \/ p.err # "nil"
                            \/ (~neg /\ BigLess(MaxInt64, p.val))
                    THEN [val |-> ToWord(<<>>, 4), err |-> "syntax"]
                    ELSE [val |-> IF neg THEN NegWord(ToWord(p.val, 4))
                                  ELSE ToWord(p.val, 4),
                          err |-> "nil"]
            IN Sum(DurationParts(t, <<>>))
    IN Signed(s # <<>> /\ s[1] = "-",
              IF s # <<>> /\ s[1] \in {"+", "-"} THEN Tail(s) ELSE s)

\* The last n digits of the decimal digits ds, zeros put before them, with
\* a point before them, and without the zeros at the end.
RECURSIVE Fraction(_)
Fraction(ds) ==
    IF ds = <<>> THEN <<>>
    ELSE IF ds[Len(ds)] = "0" THEN Fraction(SubSeq(ds, 1, Len(ds) - 1))
    ELSE <<".">> \o ds

RECURSIVE Padded(_, _)
Padded(ds, n) == IF Len(ds) >= n THEN ds ELSE Padded(<<"0">> \o ds, n)

\* x / 10^n with its fraction, for the natural number x.
Decimal(x, n) ==
    LET Point(ds) ==
            SubSeq(ds, 1, Len(ds) - n) \o Fraction(From(ds, Len(ds) - n + 1))
    IN Point(Padded(FormatNat(x), n + 1))

\* Duration.String() for the natural number u of nanoseconds.
DurationString(u) ==
    IF u = <<>> THEN <<"0", "s">>
    ELSE IF BigLess(u, <<1000>>) THEN Decimal(u, 0) \o <<"n", "s">>
    ELSE IF BigLess(u, MulAll(<<1>>, <<1000, 1000>>))
    THEN Decimal(u, 3) \o <<"µ", "s">>
    ELSE IF BigLess(u, MulAll(<<1>>, <<1000, 1000, 1000>>))
    THEN Decimal(u, 6) \o <<"m", "s">>
    ELSE LET Seconds(ds, s) ==
                 LET Minutes(m) ==
                         LET Parts(sec, min) ==
                                 IF m.q # <<>>
                                 THEN FormatNat(m.q) \o <<"h">> \o min \o sec
                                 ELSE IF m.r > 0 THEN min \o sec
                                 ELSE sec
                         IN Parts(FormatNat(MulAdd(<<>>, 1, s.r))
                                  \o Fraction(From(ds, Len(ds) - 8))
                                  \o <<"s">>,
                                  FormatNat(MulAdd(<<>>, 1, m.r)) \o <<"m">>)
                 IN Minutes(DivMod(s.q, 60, 0))
         IN Seconds(FormatNat(u),
                    DivMod(DivMod(DivMod(DivMod(u, 1000, 0).q, 1000, 0).q,
                                  1000, 0).q, 60, 0))

(***************************************************************************)
(* Floating point numbers written with digits and at most one point, of at *)
(* most 15 digits, which a float64 tells apart: the value is the number as *)
(* fmt.Sprintf("%v") writes it.  (No input of the model holds an exponent, *)
(* a hexadecimal mantissa, inf or nan.)                                    *)
(***************************************************************************)
RECURSIVE NoLeadingZeros(_)
NoLeadingZeros(ds) ==
    IF Len(ds) > 1 /\ ds[1] = "0" THEN NoLeadingZeros(Tail(ds)) ELSE ds

\* strconv.ParseFloat(s, 64): with a syntax error the number is 0.
ParseFloat(s) ==
    LET Signed(neg, t) ==
            LET Whole(n, rest) ==
                    LET Frac(point, frac, whole) ==
                            IF (rest # <<>> /\ ~point)
                               \/ LeadingDigits(frac) # Len(frac)
                               \/ n + Len(frac) = 0
                            THEN [val |-> <<"0">>, err |-> "syntax"]
                            ELSE [val |-> (IF neg THEN <<"-">> ELSE <<>>)
                                          \o whole \o Fraction(frac),
                                  err |-> "nil"]
                    IN Frac(rest # <<>> /\ rest[1] = ".",
                            IF rest # <<>> /\ rest[1] = "."
                            THEN Tail(rest) ELSE <<>>,
                            IF n = 0 THEN <<"0">>
                            ELSE NoLeadingZeros(SubSeq(t, 1, n)))
            IN Whole(LeadingDigits(t), From(t, LeadingDigits(t) + 1))
    IN Signed(s # <<>> /\ s[1] = "-",
              IF s # <<>> /\ s[1] \in {"+", "-"} THEN Tail(s) ELSE s)

(***************************************************************************)
(* The value model.  kind is the variant: "present" (presentValue),        *)
(* "bool", "int", "int64", "uint", "uint64", "string", "float64",          *)
(* "duration", or "func" (funcValue, whose callback records the tokens it  *)
(* was called with and fails when the flag says so).  A value is a         *)
(* sequence: <<TrueStr>> or <<FalseStr>> for a present or bool flag, the   *)
(* word of an integer or duration, the one string of a string flag, the    *)
(* one number of a float, the tokens of the last call of a callback.       *)
(***************************************************************************)
FalseStr == <<"f", "a", "l", "s", "e">>
TrueStr == <<"t", "r", "u", "e">>

\* Value.String()
ValueString(kind, val) ==
    CASE kind \in {"present", "bool"} ->
             IF val = <<TrueStr>> THEN TrueStr ELSE FalseStr
      [] kind \in {"string", "float64"} -> val[1]
      [] kind \in {"int", "int64"} -> FormatInt(val, TRUE)
      [] kind \in {"uint", "uint64"} -> FormatInt(val, FALSE)
      [] kind = "duration" ->
             IF IsNegative(val)
             THEN <<"-">> \o DurationString(Trim(NegWord(val)))
             ELSE DurationString(Trim(val))
      [] OTHER -> Empty

\* The variants whose Set reads s[0].
Indexes(kind) == kind \notin {"present", "func"}

\* Value.Set(s): the value stored and the error returned; "index" is the
\* panic of reading s[0] of an empty slice.  The built-in variants that
\* convert store the result of the conversion before they look at its
\* error.
ValueSet(fl, s) ==
    IF Indexes(fl.kind) /\ s = <<>> THEN [val |-> fl.val, err |-> "index"]
    ELSE CASE fl.kind = "present" -> [val |-> <<TrueStr>>, err |-> "nil"]
           [] fl.kind = "string" -> [val |-> <<s[1]>>, err |-> "nil"]
           [] fl.kind = "bool" ->
                  LET Store(r) ==
                          [val |-> <<IF r.val THEN TrueStr ELSE FalseStr>>,
                           err |-> r.err]
                  IN Store(ParseBool(s[1]))
           [] fl.kind \in {"int", "int64"} ->
                  LET Store(r) ==
                          [val |-> Truncate(r.val, fl.bits), err |-> r.err]
                  IN Store(ParseInt(s[1]))
           [] fl.kind \in {"uint", "uint64"} ->
                  LET Store(r) ==
                          [val |-> Truncate(ToWord(r.val, 4), fl.bits),
                           err |-> r.err]
                  IN Store(ParseUint(s[1]))
           [] fl.kind = "duration" ->
                  ParseDuration(s[1])
           [] fl.kind = "float64" ->
                  LET Store(r) == [val |-> <<r.val>>, err |-> r.err]
                  IN Store(ParseFloat(s[1]))
           [] OTHER -> IF fl.fails THEN [val |-> fl.val, err |-> "callback"]
                       ELSE [val |-> s, err |-> "nil"]

(***************************************************************************)
(* The state: the fields of one FlagSet, the package variable ErrHelp, and *)
(* the position of the program.                                            *)
(***************************************************************************)
VARIABLES
    formal,            \* f.formal: name -> flag (the identity of a *Flag)
    flags,             \* the Flag records, by identity
    actual,            \* f.actual: name -> flag
    args,              \* f.args
    procArgs,          \* f.procArgs
    procFlag,          \* f.procFlag
    parsed,            \* f.parsed
    allowIntersperse,  \* f.allowIntersperse
    errorHandling,     \* f.errorHandling
    FlagKnownAs,       \* f.FlagKnownAs
    ErrHelp,           \* the package variable ErrHelp
    usageCalls,        \* calls of f.usage() made by the current Parse call
    usageIndent,       \* f.usageIndent
    pc,                \* "idle", "Parse", "exited", "panicked" or "hung"
    ret,               \* what the last Parse call returned
    exitCode,          \* the code given to os.Exit, -1 before
    panicVal,          \* the value given to panic, "" before
    setErr,            \* what the last call of f.Set returned
    visited,           \* the flags fn got in the last Visit or VisitAll call
    IntSize            \* strconv.IntSize, the width of int and uint

vars == <<formal, flags, actual, args, procArgs, procFlag, parsed,
          allowIntersperse, errorHandling, FlagKnownAs, ErrHelp, usageCalls,
          usageIndent,
          pc, ret, exitCode, panicVal, setErr, visited, IntSize>>

\* The FlagSet and ErrHelp as one record, on which the methods operate.
World == [formal |-> formal, flags |-> flags, actual |-> actual,
          args |-> args, procArgs |-> procArgs, procFlag |-> procFlag,
          parsed |-> parsed, allowIntersperse |-> allowIntersperse,
          errorHandling |-> errorHandling, FlagKnownAs |-> FlagKnownAs,
          ErrHelp |-> ErrHelp, usageCalls |-> usageCalls,
          usageIndent |-> usageIndent]

\* m[k] = v of a Go map.
MapPut(m, k, v) == [n \in (DOMAIN m) \cup {k} |-> IF n = k THEN v ELSE m[n]]

Has(m, k) == k \in DOMAIN m

\* The flags a map holds.
Range(m) == {m[n] : n \in DOMAIN m}

(***************************************************************************)
(* The order of strings, byte by byte as Go compares them, and the sorted  *)
(* list of flags that Visit and VisitAll walk.                             *)
(***************************************************************************)
\* The code points that names are written with, in the order of their codes.
Ascii ==
    <<" ", "-", "0", "1", "2", "3", "4", "5", "6", "7", "8", "9", "=",
      "a", "b", "c", "d", "e", "f", "g", "h", "i", "j", "k", "l", "m",
      "n", "o", "p", "q", "r", "s", "t", "u", "v", "w", "x", "y", "z">>

\* The code points outside ASCII that names are written with.  A string of
\* TLA+ holds ASCII only: E stands for U+00E9, of two bytes and one column,
\* and W for U+4E16, of three bytes and two columns.  Their codes lie behind
\* those of ASCII, in this order.
CodePoints == Ascii \o <<"E", "W">>

Code(c) == CHOOSE i \in 1..Len(CodePoints) : CodePoints[i] = c

\* The number of bytes of the UTF-8 encoding of the code point c.
RuneLen(c) == IF c = "E" THEN 2 ELSE IF c = "W" THEN 3 ELSE 1

\* runewidth.RuneWidth(c): the columns that c takes.
RuneWidth(c) == IF c = "W" THEN 2 ELSE 1

\* len(s): the number of bytes of s.
RECURSIVE len(_)
len(s) == IF s = <<>> THEN 0 ELSE RuneLen(Head(s)) + len(Tail(s))

\* runewidth.StringWidth(s)
RECURSIVE StringWidth(_)
StringWidth(s) ==
    IF s = <<>> THEN 0 ELSE RuneWidth(Head(s)) + StringWidth(Tail(s))

\* a < b for the strings a and b
RECURSIVE Less(_, _)
Less(a, b) ==
    IF b = <<>> THEN FALSE
    ELSE IF a = <<>> THEN TRUE
    ELSE IF a[1] = b[1] THEN Less(Tail(a), Tail(b))
    ELSE Code(a[1]) < Code(b[1])

\* The place of a least string of the list.
Least(list) ==
    CHOOSE i \in 1..Len(list) : \A j \in 1..Len(list) : ~Less(list[j], list[i])

\* The list with its least string, at the place i, put first.
RECURSIVE Sort(_)
LeastFirst(list, i) ==
    <<list[i]>> \o Sort(SubSeq(list, 1, i - 1)
                        \o SubSeq(list, i + 1, Len(list)))

\* list.Sort() of a sort.StringSlice
Sort(list) == IF list = <<>> THEN <<>> ELSE LeastFirst(list, Least(list))

\* The first loop of sortFlags: for every entry of the map, the first name
\* of its flag.  The order of the entries is lost in the sort.
RECURSIVE firstNames(_, _, _)
firstNames(m, fl, keys) ==
    IF keys = {} THEN <<>>
    ELSE LET k == CHOOSE k \in keys : TRUE
         IN <<fl[m[k]].Name[1]>> \o firstNames(m, fl, keys \ {k})

\* The nil *Flag that a map gives for a key it does not hold.
Nil == 0

\* sortFlags(flags): the map m is looked up under every name of the sorted
\* list; fl holds the Flag records.
Lookup(m, list) ==
    [i \in 1..Len(list) |-> IF Has(m, list[i]) THEN m[list[i]] ELSE Nil]

sortFlags(m, fl) == Lookup(m, Sort(firstNames(m, fl, DOMAIN m)))

(***************************************************************************)
(* Usage output.  PrintDefaults walks the registered flags and, through    *)
(* the slice Names that shares the array of fs.Name, puts a single code    *)
(* point name before a longer first name in the record itself.             *)
(***************************************************************************)
\* Every name is printed with one -.
flagWithMinus_oneMinus(name) == <<"-">> \o name

flagWithMinus(name) ==
    IF rlen(name) > 1 THEN <<"-", "-">> \o name ELSE <<"-">> \o name

PrintDefaultsName(Name) ==
    IF Len(Name) > 1 /\ rlen(Name[1]) > 1 /\ rlen(Name[2]) = 1
    THEN [Name EXCEPT ![1] = Name[2], ![2] = Name[1]]
    ELSE Name

\* The callback PrintDefaults gives to VisitAll: of the flags visited, from
\* the i-th on, those whose first name was not seen before.
RECURSIVE uniqueFlag(_, _, _, _)
uniqueFlag(list, fl, i, seen) ==
    IF i > Len(list) THEN <<>>
    ELSE LET n == fl[list[i]].Name[1]
         IN IF n \in seen THEN uniqueFlag(list, fl, i + 1, seen)
            ELSE <<list[i]>> \o uniqueFlag(list, fl, i + 1, seen \cup {n})

\* The flags PrintDefaults prints, in the order of their lines.
PrintDefaultsFlags(w) ==
    uniqueFlag(sortFlags(w.formal, w.flags), w.flags, 1, {})

\* The callback's maxLen over the flags fs, from the i-th on: a first name
\* of more bytes than maxLen sets it to the columns of that name.
RECURSIVE maxLenLoop(_, _, _, _)
maxLenLoop(fl, fs, i, maxLen) ==
    IF i > Len(fs) THEN maxLen
    ELSE maxLenLoop(fl, fs, i + 1,
                    IF len(fl[fs[i]].Name[1]) > maxLen
                    THEN StringWidth(fl[fs[i]].Name[1]) ELSE maxLen)

haveMultiple(fl, fs) == \E i \in 1..Len(fs) : Len(fl[fs[i]].Name) > 1

\* padN: the column of the usage texts.
padN(w) ==
    LET fs == PrintDefaultsFlags(w)
    IN IF haveMultiple(w.flags, fs) THEN maxLenLoop(w.flags, fs, 1, 0) + 8
       ELSE maxLenLoop(w.flags, fs, 1, 0) + 4

\* The loop that makes pad, the line break with which the line breaks of a
\* usage text are replaced.
RECURSIVE padLoop(_, _, _)
padLoop(p, n, indent) ==
    IF (indent = 0 /\ Len(p) <= n) \/ Len(p) <= indent
    THEN padLoop(Append(p, " "), n, indent)
    ELSE p

pad(w) == padLoop(<<"\n">>, padN(w), w.usageIndent)

\* The line of one flag: its names, each with its minus signs, and the
\* default, which is left out for a present flag whose value is false.
PrintDefaultsLine(fl) ==
    LET Names == PrintDefaultsName(fl.Name)
    IN [names |-> [k \in 1..Len(Names) |-> flagWithMinus(Names[k])],
        default |-> IF fl.kind = "present" /\ fl.val = <<FalseStr>>
                    THEN <<>> ELSE <<fl.DefValue>>]

\* The lines of the flags fs.
LinesOf(w, fs) == [i \in 1..Len(fs) |-> PrintDefaultsLine(w.flags[fs[i]])]

\* What PrintDefaults writes.
PrintDefaultsLines(w) == LinesOf(w, PrintDefaultsFlags(w))

\* The FlagSet with the names of the flags fs put as they are printed.
NamesPut(w, fs) ==
    [w EXCEPT !.flags = [i \in DOMAIN w.flags |->
        IF \E k \in 1..Len(fs) : fs[k] = i
        THEN [w.flags[i] EXCEPT !.Name = PrintDefaultsName(@)]
        ELSE w.flags[i]]]

\* How PrintDefaults leaves the FlagSet.
PrintDefaults(w) == NamesPut(w, PrintDefaultsFlags(w))

\* f.usage() with f.Usage unset: defaultUsage, which prints the defaults.
usage(w) == [PrintDefaults(w) EXCEPT !.usageCalls = @ + 1]

\* f.failf: the error is printed, usage is called, the error returned.
failf(w, err) == [w |-> usage(w), err |-> err]

(***************************************************************************)
(* Registration.                                                           *)
(***************************************************************************)
\* The names as Var orders them: a single code point first name goes behind
\* a longer second name.
VarNames(flagStr) ==
    LET names == splitOn(flagStr, " ", -1).out
    IN IF Len(names) > 1 /\ rlen(names[1]) = 1 /\ rlen(names[2]) > 1
       THEN [names EXCEPT ![1] = names[2], ![2] = names[1]]
       ELSE names

\* The loop of Var over the names, from the i-th on: the formal map it
\* leaves, and whether it panicked on a name already there.
\* A name already there is never replaced.
enterName_overwrites(m, name, id) ==
    [formal |-> MapPut(m, name, id), panic |-> FALSE]

\* One turn of that loop: the name is entered unless it is already there.
enterName(m, name, id) ==
    IF Has(m, name) THEN [formal |-> m, panic |-> TRUE]
    ELSE [formal |-> MapPut(m, name, id), panic |-> FALSE]

RECURSIVE VarLoop(_, _, _, _)
VarLoop(m, names, i, id) ==
    IF i > Len(names) THEN [formal |-> m, panic |-> FALSE]
    ELSE LET e == enterName(m, names[i], id)
         IN IF e.panic THEN e ELSE VarLoop(e.formal, names, i + 1, id)

\* The Flag record Var makes for the value c.
NewFlag(c) ==
    [Name |-> VarNames(c.flagStr), kind |-> c.kind, fails |-> c.fails,
     val |-> c.val, DefValue |-> ValueString(c.kind, c.val),
     ArgsNeeded |-> c.args,
     bits |-> IF c.kind \in {"int", "uint"} THEN IntSize ELSE 64]

(***************************************************************************)
(* The scanner.  parseOne returns the changed FlagSet with its results.    *)
(***************************************************************************)
Scan(w, flagName, long, finished, err) ==
    [w |-> w, flagName |-> flagName, long |-> long, finished |-> finished,
     err |-> err]

\* The code point stays in the buffer.
pendingFlag_keeps(w) == Scan(w, <<Head(w.procFlag)>>, FALSE, FALSE, NoErr)

\* processing previously encountered single-rune flag
pendingFlag(w) ==
    Scan([w EXCEPT !.procFlag = Tail(@)], <<Head(w.procFlag)>>,
         FALSE, FALSE, NoErr)

\* a == "-" || a == "" || a[0] != '-'
IsNonFlag(a) == a = <<"-">> \/ a = Empty \/ a[1] # "-"

\* Without interspersion only the token itself becomes positional.
nonFlagArg_oneOnly(w, a) ==
    IF w.allowIntersperse
    THEN Scan([w EXCEPT !.args = Append(@, a), !.procArgs = Tail(@)],
              Empty, FALSE, FALSE, NoErr)
    ELSE Scan([w EXCEPT !.args = Append(@, a), !.procArgs = <<>>],
              Empty, FALSE, TRUE, NoErr)

\* The interspersion setting is not looked at.
nonFlagArg_stops(w, a) ==
    Scan([w EXCEPT !.args = @ \o w.procArgs, !.procArgs = <<>>],
         Empty, FALSE, TRUE, NoErr)

\* one non-flag argument
nonFlagArg(w, a) ==
    IF w.allowIntersperse
    THEN Scan([w EXCEPT !.args = Append(@, a), !.procArgs = Tail(@)],
              Empty, FALSE, FALSE, NoErr)
    ELSE Scan([w EXCEPT !.args = @ \o w.procArgs, !.procArgs = <<>>],
              Empty, FALSE, TRUE, NoErr)

\* end of flags
endOfFlags(w) ==
    Scan([w EXCEPT !.args = @ \o Tail(w.procArgs), !.procArgs = <<>>],
         Empty, FALSE, TRUE, NoErr)

\* long flag signified with "--" prefix
longFlag(w, a) ==
    LET parts == splitOn(a, "=", 2).out IN
    IF Len(parts) > 1
    THEN LET flagName == Tail2(parts[1]) IN
         Scan([w EXCEPT !.procFlag = parts[2], !.procArgs = Tail(@)],
              flagName, TRUE, FALSE,
              IF flagName = Empty
              THEN Errorf("empty", w.FlagKnownAs, Empty, <<a>>, "nil")
              ELSE NoErr)
    ELSE Scan([w EXCEPT !.procArgs = Tail(@)], Tail2(a), TRUE, FALSE, NoErr)

\* The = behind the first code point is not looked at.
shortFlags_noEquals(w, a) ==
    LET b == Tail(a) IN
    Scan([w EXCEPT !.procFlag = Tail(b), !.procArgs = Tail(@)],
         <<b[1]>>, FALSE, FALSE, NoErr)

\* some number of single-rune flags
shortFlags(w, a) ==
    LET b == Tail(a) IN
    IF Len(b) > 1 /\ b[2] = "="
    THEN Scan([w EXCEPT !.procFlag = From(b, 3), !.procArgs = Tail(@)],
              <<b[1]>>, FALSE, FALSE, NoErr)
    ELSE Scan([w EXCEPT !.procFlag = Tail(b), !.procArgs = Tail(@)],
              <<b[1]>>, FALSE, FALSE, NoErr)

parseOne(w) ==
    IF Len(w.procArgs) = 0 THEN Scan(w, Empty, FALSE, TRUE, NoErr)
    ELSE IF Len(w.procFlag) > 0 THEN pendingFlag(w)
    ELSE LET a == w.procArgs[1] IN
         IF IsNonFlag(a) THEN nonFlagArg(w, a)
         ELSE IF a = <<"-", "-">> THEN endOfFlags(w)
         ELSE IF a[2] = "-" THEN longFlag(w, a)
         ELSE shortFlags(w, a)

(***************************************************************************)
(* The resolver.                                                           *)
(***************************************************************************)
\* The end of parseFlagArg: the name is entered in f.actual.
Triggered(w, name, id) ==
    [w |-> [w EXCEPT !.actual = MapPut(@, name, id)], err |-> NoErr]

SetVal(w, id, val) == [w EXCEPT !.flags[id].val = val]

\* The error that Value.Set returned, as FlagSet.Set hands it on.
ValueError(cause) ==
    [kind |-> "value", id |-> 0, label |-> <<>>, flag |-> Empty,
     input |-> <<>>, cause |-> cause]

\* f.Set(name, value): the FlagSet it leaves and the error it returns.
\* The end of f.Set, r being what the Set of the value id returned.
SetDone(w, name, id, r) ==
    IF r.err # "nil"
    THEN [w |-> SetVal(w, id, r.val), err |-> ValueError(r.err)]
    ELSE [w |-> [SetVal(w, id, r.val) EXCEPT !.actual = MapPut(@, name, id)],
          err |-> NoErr]

FlagSetSet(w, name, value) ==
    IF ~Has(w.formal, name)
    THEN [w |-> w,
          err |-> Errorf("nosuch", w.FlagKnownAs, <<"-">> \o name, <<>>,
                         "nil")]
    ELSE SetDone(w, name, w.formal[name],
                 ValueSet(w.flags[w.formal[name]], value))

\* f.NFlag()
NFlag(w) == Cardinality(DOMAIN w.actual)

HelpName(name) == name = <<"h", "e", "l", "p">> \/ name = <<"h">>

\* The name is not registered.
notDefined(w, name) ==
    IF HelpName(name)
    THEN \* special case for nice help message
         LET e == NewHelpError(w.FlagKnownAs, w.ErrHelp)
         IN [w |-> [usage(w) EXCEPT !.ErrHelp = e], err |-> e]
    ELSE failf(w, Errorf("unknown", w.FlagKnownAs, flagWithMinus(name),
                         <<>>, "nil"))

\* case 0: the flag doesn't need an arg.
noArgCheck(w, name, long, id) ==
    IF w.procFlag # Empty /\ long
    THEN failf([w EXCEPT !.procFlag = Empty],
               Errorf("unwanted", w.FlagKnownAs, flagWithMinus(name),
                      <<w.procFlag>>, "nil"))
    ELSE Triggered(w, name, id)

\* Set is called first, and what it returns is dropped; the check for a
\* value that was given comes after it.
noArg(w, name, long, id) ==
    noArgCheck(SetVal(w, id, ValueSet(w.flags[id], <<>>).val), name, long,
               id)

\* The end of case 1 and of the default case, r being what the Set of the
\* value returned for the tokens values.
setOrFail(w, name, id, values, r) ==
    IF r.err # "nil"
    THEN failf(SetVal(w, id, r.val),
               Errorf("invalid", w.FlagKnownAs, flagWithMinus(name),
                      values, r.err))
    ELSE Triggered(SetVal(w, id, r.val), name, id)

\* case 1: it must have a value, which might be the next argument.
oneArg(w, name, id) ==
    LET attached == w.procFlag # Empty
        next == ~attached /\ Len(w.procArgs) > 0
        value == IF attached THEN w.procFlag
                 ELSE IF next THEN w.procArgs[1] ELSE Empty
        w1 == [w EXCEPT !.procFlag = Empty,
                        !.procArgs = IF next THEN Tail(@) ELSE @]
    IN IF ~attached /\ ~next
       THEN failf(w1, Errorf("needs", w.FlagKnownAs, flagWithMinus(name),
                             <<>>, "nil"))
       ELSE setOrFail(w1, name, id, <<value>>,
                    ValueSet(w.flags[id], <<value>>))

\* The tokens that are there are handed to Set when they are too few.
manyArgs_takesWhatIsThere(w, name, id) ==
    IF w.procFlag # Empty
    THEN failf(w, Errorf("more", w.FlagKnownAs, flagWithMinus(name),
                         <<>>, "nil"))
    ELSE IF Len(w.procArgs) < w.flags[id].ArgsNeeded
    THEN failf(SetVal(w, id, w.procArgs),
               Errorf("notenough", w.FlagKnownAs, flagWithMinus(name),
                      <<>>, "nil"))
    ELSE setOrFail(w, name, id, SubSeq(w.procArgs, 1, w.flags[id].ArgsNeeded),
                   ValueSet(w.flags[id],
                            SubSeq(w.procArgs, 1, w.flags[id].ArgsNeeded)))

\* default: the flag needs ArgsNeeded values, the next arguments.
manyArgs(w, name, id) ==
    LET n == w.flags[id].ArgsNeeded IN
    IF w.procFlag # Empty
    THEN failf(w, Errorf("more", w.FlagKnownAs, flagWithMinus(name),
                         <<>>, "nil"))
    ELSE IF Len(w.procArgs) < n
    THEN failf(w, Errorf("notenough", w.FlagKnownAs, flagWithMinus(name),
                         <<>>, "nil"))
    ELSE setOrFail(w, name, id, SubSeq(w.procArgs, 1, n),
                 ValueSet(w.flags[id], SubSeq(w.procArgs, 1, n)))

\* The help names are looked at before the registry.
parseFlagArg_helpFirst(w, name, long) ==
    IF HelpName(name) \/ ~Has(w.formal, name) THEN notDefined(w, name)
    ELSE LET id == w.formal[name] IN
         CASE w.flags[id].ArgsNeeded = 0 -> noArg(w, name, long, id)
           [] w.flags[id].ArgsNeeded = 1 -> oneArg(w, name, id)
           [] OTHER -> manyArgs(w, name, id)

parseFlagArg(w, name, long) ==
    IF ~Has(w.formal, name) THEN notDefined(w, name)
    ELSE LET id == w.formal[name] IN
         CASE w.flags[id].ArgsNeeded = 0 -> noArg(w, name, long, id)
           [] w.flags[id].ArgsNeeded = 1 -> oneArg(w, name, id)
           [] OTHER -> manyArgs(w, name, id)

(***************************************************************************)
(* Parse.  ParseStart is the code before the loop; ParseIter is one turn   *)
(* of the loop: how it leaves the FlagSet, and how it ends: "continue",    *)
(* "return" (of err), "exit" (with code) or "panic".                       *)
(***************************************************************************)
\* Every flag gets the value it was registered with again.
ParseStart_restoresDefaults(w, arguments) ==
    [w EXCEPT !.parsed = TRUE, !.procArgs = arguments, !.procFlag = Empty,
              !.args = <<>>, !.usageCalls = 0,
              !.flags = [i \in DOMAIN w.flags |->
                  [w.flags[i] EXCEPT !.val =
                      IF @ = <<>> THEN @ ELSE <<w.flags[i].DefValue>>]]]

ParseStart(w, arguments) ==
    [w EXCEPT !.parsed = TRUE, !.procArgs = arguments, !.procFlag = Empty,
              !.args = <<>>, !.usageCalls = 0]

\* f.Parsed()
Parsed(w) == w.parsed

Turn(w, end, err, code) == [w |-> w, end |-> end, err |-> err, code |-> code]

\* The error is compared with the first value of ErrHelp.
onError_firstSentinel(w, err) ==
    CASE w.errorHandling = ContinueOnError -> Turn(w, "return", err, -1)
      [] w.errorHandling = ExitOnError ->
             Turn(w, "exit", err, IF err = ErrHelpInit THEN 0 ELSE 2)
      [] w.errorHandling = PanicOnError -> Turn(w, "panic", err, -1)

\* ContinueOnError goes on with the loop.
onError_goesOn(w, err) ==
    CASE w.errorHandling = ContinueOnError -> Turn(w, "continue", err, -1)
      [] w.errorHandling = ExitOnError ->
             Turn(w, "exit", err, IF err = w.ErrHelp THEN 0 ELSE 2)
      [] w.errorHandling = PanicOnError -> Turn(w, "panic", err, -1)

\* The switch on f.errorHandling for the error err.
onError(w, err) ==
    CASE w.errorHandling = ContinueOnError -> Turn(w, "return", err, -1)
      [] w.errorHandling = ExitOnError ->
             Turn(w, "exit", err, IF err = w.ErrHelp THEN 0 ELSE 2)
      [] w.errorHandling = PanicOnError -> Turn(w, "panic", err, -1)

\* The end of a turn, r being what the scanner or the resolver returned.
turnEnd(r, finished) ==
    IF r.err # NoErr THEN onError(r.w, r.err)
    ELSE IF ~finished THEN Turn(r.w, "continue", NoErr, -1)
         ELSE Turn(r.w, "return", NoErr, -1)

\* The turn after the scan s: a name that was found is resolved.
resolve(s) ==
    IF ~s.finished /\ s.flagName # Empty
    THEN turnEnd(parseFlagArg(s.w, s.flagName, s.long), FALSE)
    ELSE turnEnd([w |-> s.w, err |-> s.err], s.finished)

ParseIter(w) == resolve(parseOne(w))

\* Parse as a whole: the loop run to its end.  A turn consumes a token or a
\* code point of the cluster buffer, or ends the loop.
RECURSIVE ParseLoop(_)
loopEnd(t) == IF t.end = "continue" THEN ParseLoop(t.w) ELSE t

ParseLoop(w) == loopEnd(ParseIter(w))

Parse(w, arguments) == ParseLoop(ParseStart(w, arguments))

(***************************************************************************)
(* The calls a program makes, as actions.                                  *)
(***************************************************************************)
SetWorld(w) ==
    /\ formal' = w.formal
    /\ flags' = w.flags
    /\ actual' = w.actual
    /\ args' = w.args
    /\ procArgs' = w.procArgs
    /\ procFlag' = w.procFlag
    /\ parsed' = w.parsed
    /\ allowIntersperse' = w.allowIntersperse
    /\ errorHandling' = w.errorHandling
    /\ FlagKnownAs' = w.FlagKnownAs
    /\ ErrHelp' = w.ErrHelp
    /\ usageCalls' = w.usageCalls
    /\ usageIndent' = w.usageIndent

\* NewFlagSetWithFlagKnownAs(name, errorHandling, aka)
NewFlagSetWithFlagKnownAs(eh, aka) ==
    /\ formal = <<>>
    /\ flags = <<>>
    /\ actual = <<>>
    /\ args = <<>>
    /\ procArgs = <<>>
    /\ procFlag = Empty
    /\ parsed = FALSE
    /\ allowIntersperse = FALSE
    /\ errorHandling = eh
    /\ FlagKnownAs = aka
    /\ ErrHelp = ErrHelpInit
    /\ usageCalls = 0
    /\ usageIndent = 0
    /\ pc = "idle"
    /\ ret = NoErr
    /\ exitCode = -1
    /\ panicVal = ""
    /\ setErr = NoErr
    /\ visited = <<>>

\* What Var leaves: nothing when splitOn does not return, and else the names
\* that its loop has entered.
VarReturns(c, r) ==
    IF splitOn(c.flagStr, " ", -1).hang
    THEN /\ pc' = "hung"
         /\ UNCHANGED <<formal, flags, panicVal>>
    ELSE /\ formal' = r.formal
         /\ flags' = IF r.formal # formal
                     THEN MapPut(flags, c.id, NewFlag(c)) ELSE flags
         /\ pc' = IF r.panic THEN "panicked" ELSE "idle"
         /\ panicVal' = IF r.panic THEN "redefinition" ELSE panicVal

\* f.Var(value, flagStr, usage, typeExp, args) for the value c of a
\* catalogue.  The record made is entered under the names in turn; a name
\* already there panics, and leaves the names entered before it.
Var(c) ==
    /\ pc = "idle"
    /\ VarReturns(c, VarLoop(formal, VarNames(c.flagStr), 1, c.id))
    /\ UNCHANGED <<actual, args, procArgs, procFlag, parsed, allowIntersperse,
                   errorHandling, FlagKnownAs, ErrHelp, usageCalls,
                   usageIndent, ret,
                   exitCode, setErr, visited, IntSize>>

\* f.SetAllowIntersperse(b)
SetAllowIntersperse(b) ==
    /\ pc = "idle"
    /\ allowIntersperse # b
    /\ allowIntersperse' = b
    /\ UNCHANGED <<formal, flags, actual, args, procArgs, procFlag, parsed,
                   errorHandling, FlagKnownAs, ErrHelp, usageCalls,
                   usageIndent, pc, ret,
                   exitCode, panicVal, setErr, visited, IntSize>>

\* f.SetUsageIndent(usageIndent)
SetUsageIndent(n) ==
    /\ pc = "idle"
    /\ usageIndent # n
    /\ usageIndent' = n
    /\ UNCHANGED <<formal, flags, actual, args, procArgs, procFlag, parsed,
                   allowIntersperse, errorHandling, FlagKnownAs, ErrHelp,
                   usageCalls, pc, ret, exitCode, panicVal, setErr, visited,
                   IntSize>>

\* f.Set(name, value).  A value that indexes value[0] panics on the empty
\* slice.
SetReturns(r) ==
    IF r.err.cause = "index"
    THEN /\ pc' = "panicked"
         /\ panicVal' = "index"
         /\ UNCHANGED <<formal, flags, actual, args, procArgs, procFlag,
                        parsed, allowIntersperse, errorHandling, FlagKnownAs,
                        ErrHelp, usageCalls, usageIndent, setErr>>
    ELSE /\ SetWorld(r.w)
         /\ setErr' = r.err
         /\ UNCHANGED <<pc, panicVal>>

Set(name, value) ==
    /\ pc = "idle"
    /\ SetReturns(FlagSetSet(World, name, value))
    /\ UNCHANGED <<ret, exitCode, visited, IntSize>>

\* f.PrintDefaults()
PrintDefaultsCall ==
    /\ pc = "idle"
    /\ SetWorld(PrintDefaults(World))
    /\ UNCHANGED <<pc, ret, exitCode, panicVal, setErr, visited, IntSize>>

\* f.VisitAll(fn), with an fn that notes the flag it is called with.
VisitAll ==
    /\ pc = "idle"
    /\ visited' = sortFlags(formal, flags)
    /\ UNCHANGED <<formal, flags, actual, args, procArgs, procFlag, parsed,
                   allowIntersperse, errorHandling, FlagKnownAs, ErrHelp,
                   usageCalls, usageIndent, pc, ret, exitCode, panicVal, setErr, IntSize>>

\* f.Visit(fn), with the same fn.
Visit ==
    /\ pc = "idle"
    /\ visited' = sortFlags(actual, flags)
    /\ UNCHANGED <<formal, flags, actual, args, procArgs, procFlag, parsed,
                   allowIntersperse, errorHandling, FlagKnownAs, ErrHelp,
                   usageCalls, usageIndent, pc, ret, exitCode, panicVal, setErr, IntSize>>

\* f.Parse(arguments) is called: the code before the loop.
ParseCall(arguments) ==
    /\ pc = "idle"
    /\ ErrHelp.id <= MaxHelp
    /\ SetWorld(ParseStart(World, arguments))
    /\ pc' = "Parse"
    /\ ret' = NoErr
    /\ UNCHANGED <<exitCode, panicVal, setErr, visited, IntSize>>

\* One turn of the loop of Parse, with the dispatch on the error policy.
TurnReturns(t) ==
    /\ SetWorld(t.w)
    /\ pc' = CASE t.end = "continue" -> "Parse"
               [] t.end = "return" -> "idle"
               [] t.end = "exit" -> "exited"
               [] t.end = "panic" -> "panicked"
    /\ ret' = t.err
    /\ exitCode' = t.code
    /\ panicVal' = IF t.end = "panic" THEN "error" ELSE panicVal

ParseTurn ==
    /\ pc = "Parse"
    /\ TurnReturns(ParseIter(World))
    /\ UNCHANGED <<setErr, visited, IntSize>>

(***************************************************************************)
(* The programs checked: the values registered and the argument lists.     *)
(***************************************************************************)
Labels == {"parameter", "option"}

Policies == {ContinueOnError, ExitOnError, PanicOnError}

\* The argument lists of at most MaxArgs tokens of T.
ArgLists(T) == UNION {[1..n -> T] : n \in 0..MaxArgs}

Present(id, flagStr) ==
    [id |-> id, flagStr |-> flagStr, kind |-> "present", fails |-> FALSE,
     val |-> <<FalseStr>>, args |-> 0]

String(id, flagStr, def) ==
    [id |-> id, flagStr |-> flagStr, kind |-> "string", fails |-> FALSE,
     val |-> <<def>>, args |-> 1]

Func(id, flagStr, n, fails) ==
    [id |-> id, flagStr |-> flagStr, kind |-> "func", fails |-> fails,
     val |-> <<>>, args |-> n]

Bool(id, flagStr, def) ==
    [id |-> id, flagStr |-> flagStr, kind |-> "bool", fails |-> FALSE,
     val |-> <<IF def THEN TrueStr ELSE FalseStr>>, args |-> 1]

\* f.IntVar and f.UintVar with the small default n; the value is an int or uint
\* of the platform.
IntVar(id, flagStr, n) ==
    [id |-> id, flagStr |-> flagStr, kind |-> "int", fails |-> FALSE,
     val |-> FromNat(n, IntSize), args |-> 1]

UintVar(id, flagStr, n) ==
    [id |-> id, flagStr |-> flagStr, kind |-> "uint", fails |-> FALSE,
     val |-> FromNat(n, IntSize), args |-> 1]

\* f.Float64 with the default written as def.
Float64(id, flagStr, def) ==
    [id |-> id, flagStr |-> flagStr, kind |-> "float64", fails |-> FALSE,
     val |-> <<ParseFloat(def).val>>, args |-> 1]

\* f.Duration with the default written as def.
Duration(id, flagStr, def) ==
    [id |-> id, flagStr |-> flagStr, kind |-> "duration", fails |-> FALSE,
     val |-> ParseDuration(def).val, args |-> 1]

\* The values a program registers, and the tokens of its argument lists,
\* in the checks of help, errors and registration.
Catalogue ==
    { Present(1, <<"a">>), Present(2, <<"h">>),
      Present(3, <<"h", "e", "l", "p">>),
      Present(4, <<"a", " ", "h">>) }

Tokens ==
    { <<"-", "a">>, <<"-", "h">>, <<"-", "-", "h", "e", "l", "p">>,
      <<"-", "z">>, <<"-", "-", "z", "z">>,
      <<"-", "-", "h", "e", "l", "p", "=", "v">> }

Init == /\ \E eh \in Policies : \E aka \in Labels :
               NewFlagSetWithFlagKnownAs(eh, aka)
        /\ IntSize = 64

Next ==
    \/ \E c \in Catalogue : Var(c)
    \/ \E a \in ArgLists(Tokens) : ParseCall(a)
    \/ ParseTurn

Spec == Init /\ [][Next]_vars

\* The same in the checks of the scanner: clusters, attached values and
\* positional arguments, under the propagate policy.
ScanCatalogue ==
    { Present(1, <<"a">>), Present(2, <<"b">>), Present(3, <<"c">>),
      String(4, <<"p", " ", "p", "o", "r", "t">>, <<"d">>) }

ScanTokens ==
    { <<"-", "a">>, <<"-", "a", "b", "c">>, <<"-", "p", "v">>, <<"v">>,
      <<"-", "-">> }

InitScan == /\ NewFlagSetWithFlagKnownAs(ContinueOnError, "parameter")
            /\ IntSize = 64

NextScan ==
    \/ \E c \in ScanCatalogue : Var(c)
    \/ \E b \in BOOLEAN : SetAllowIntersperse(b)
    \/ \E a \in ArgLists(ScanTokens) : ParseCall(a)
    \/ ParseTurn

SpecScan == InitScan /\ [][NextScan]_vars

\* The same in the checks of the registry: visiting, setting by name,
\* printing the defaults and parsing again.  The callback of e fails.
VisitCatalogue ==
    { Present(1, <<"m">>),
      String(2, <<"a", " ", "z", "e", "t", "a">>, <<"d">>),
      Func(3, <<"e">>, 0, TRUE) }

VisitTokens == { <<"-", "m">>, <<"-", "a", "v">>, <<"-", "e">> }

SetNames == { <<"m">>, <<"a">>, <<"z", "e", "t", "a">>, <<"e">>, <<"x">> }

SetValues == { <<>>, << <<"w">> >> }

InitVisit == /\ NewFlagSetWithFlagKnownAs(ContinueOnError, "parameter")
             /\ IntSize = 64

NextVisit ==
    \/ \E c \in VisitCatalogue : Var(c)
    \/ \E n \in SetNames : \E v \in SetValues : Set(n, v)
    \/ \E a \in ArgLists(VisitTokens) : ParseCall(a)
    \/ ParseTurn
    \/ PrintDefaultsCall
    \/ VisitAll
    \/ Visit

SpecVisit == InitVisit /\ [][NextVisit]_vars

\* The same in the checks of the values that convert their token: the
\* platform has an int of 32 or of 64 bits.
ValueCatalogue ==
    { Bool(1, <<"b">>, TRUE), IntVar(2, <<"i">>, 7),
      UintVar(3, <<"u">>, 7),
      Float64(4, <<"f">>, <<"1", ".", "5">>),
      Duration(5, <<"d">>, <<"1", "s">>) }

ValueNames == { <<"b">>, <<"i">>, <<"u">>, <<"f">>, <<"d">> }

ValueTokens ==
    { <<"x">>,
      <<"2", "1", "4", "7", "4", "8", "3", "6", "4", "8">>,
      <<"4", "2", "9", "4", "9", "6", "7", "2", "9", "6">> }

InitValue == /\ NewFlagSetWithFlagKnownAs(ContinueOnError, "parameter")
             /\ IntSize \in {32, 64}

NextValue ==
    \/ \E c \in ValueCatalogue : Var(c)
    \/ \E n \in ValueNames : \E tok \in ValueTokens : Set(n, <<tok>>)

SpecValue == InitValue /\ [][NextValue]_vars

\* The same in the checks of the errors of Parse: one argument list for
\* every kind of error, and two without one.  The callbacks of e, g and n
\* fail.
ErrCatalogue ==
    { Present(1, <<"a">>), IntVar(2, <<"i">>, 7), Func(3, <<"e">>, 0, TRUE),
      Func(4, <<"g">>, 1, TRUE), Func(5, <<"n">>, 2, TRUE) }

ErrArgLists ==
    { << <<"-", "a">> >>,
      << <<"-", "i", "3">> >>,
      << <<"-", "z">> >>,
      << <<"-", "-", "=", "v">> >>,
      << <<"-", "i">> >>,
      << <<"-", "i", "x">> >>,
      << <<"-", "i">>, <<"9", "9", "9", "9", "9", "9", "9", "9", "9", "9", "9", "9", "9", "9", "9", "9", "9", "9", "9", "9">> >>,
      << <<"-", "-", "a", "=", "v">> >>,
      << <<"-", "n">>, <<"x">> >>,
      << <<"-", "n", "x">> >>,
      << <<"-", "n">>, <<"x">>, <<"y">> >>,
      << <<"-", "e">> >>,
      << <<"-", "g", "x">> >>,
      << <<"-", "h">> >> }

InitErr == /\ NewFlagSetWithFlagKnownAs(ContinueOnError, "parameter")
           /\ IntSize = 64

NextErr ==
    \/ \E c \in ErrCatalogue : Var(c)
    \/ \E a \in ErrArgLists : ParseCall(a)
    \/ ParseTurn

SpecErr == InitErr /\ [][NextErr]_vars

\* The same in the checks of the number of values a flag takes: a present
\* flag, a flag of one value and a callback of two values, which does not
\* fail; the argument lists are the short ones and three longer ones, and
\* the program calls Parse once.
ArityCatalogue ==
    { Present(1, <<"a">>), String(2, <<"p">>, <<"d">>),
      Func(3, <<"n">>, 2, FALSE) }

ArityTokens ==
    { <<"-", "a">>, <<"-", "a", "a">>, <<"-", "p">>, <<"-", "n">>,
      <<"-", "n", "x">>, <<"x">> }

ArityArgLists ==
    ArgLists(ArityTokens)
    \cup { << <<"-", "n">>, <<"x">>, <<"y">> >>,
           << <<"-", "n">>, <<"x">>, <<"y">>, <<"-", "a">> >>,
           << <<"-", "n">>, <<"-", "a">>, <<"x">> >> }

\* The one Parse call of a program.
ParseOnce(arguments) == ~Parsed(World) /\ ParseCall(arguments)

InitArity == /\ NewFlagSetWithFlagKnownAs(ContinueOnError, "parameter")
             /\ IntSize = 64

NextArity ==
    \/ \E c \in ArityCatalogue : Var(c)
    \/ \E b \in BOOLEAN : SetAllowIntersperse(b)
    \/ \E a \in ArityArgLists : ParseOnce(a)
    \/ ParseTurn

SpecArity == InitArity /\ [][NextArity]_vars

\* A turn of the loop of Parse changes the state: <<ParseTurn>>_vars is
\* enabled.
TurnChanges(t) ==
    \/ t.w # World
    \/ t.end # "continue"
    \/ t.err # ret
    \/ t.code # exitCode

ParseTurnEnabled == pc = "Parse" /\ TurnChanges(ParseIter(World))

\* Parse runs in one thread and is not suspended: a turn of its loop that
\* can be made is made.  This is WF_vars(ParseTurn), with ENABLED
\* <<ParseTurn>>_vars written as the state predicate ParseTurnEnabled.
SpecArityLive ==
    SpecArity /\ ([]<>~ParseTurnEnabled \/ []<><<ParseTurn>>_vars)

\* The same in the checks of the values attached with =: a present flag
\* and a flag of one value with an alias; the tokens attach a value, an
\* empty value and a value holding =, to a long name, to no name, to a
\* short flag and to the last member of a cluster.
AttachCatalogue ==
    { Present(1, <<"a">>),
      String(2, <<"p", " ", "p", "o", "r", "t">>, <<"d">>) }

AttachTokens ==
    { <<"-", "-", "p", "o", "r", "t", "=", "v">>,
      <<"-", "-", "p", "o", "r", "t", "=">>,
      <<"-", "-", "p", "o", "r", "t", "=", "a", "=", "b">>,
      <<"-", "-", "=", "v">>,
      <<"-", "a", "p", "=", "v">>,
      <<"-", "p", "=", "v">>,
      <<"x">> }

InitAttach == /\ NewFlagSetWithFlagKnownAs(ContinueOnError, "parameter")
              /\ IntSize = 64

NextAttach ==
    \/ \E c \in AttachCatalogue : Var(c)
    \/ \E b \in BOOLEAN : SetAllowIntersperse(b)
    \/ \E a \in ArgLists(AttachTokens) : ParseOnce(a)
    \/ ParseTurn

SpecAttach == InitAttach /\ [][NextAttach]_vars

\* The same in the checks of the names: names of one and of several bytes
\* and columns to the code point, a flag of two names, and names written
\* with a leading, a doubled and a trailing space; the program sets the
\* usage indent and prints the defaults.
NamesCatalogue ==
    { Present(1, <<"a", "a", "a", "a">>), Present(2, <<"E", "E", "E">>),
      String(3, <<"p", " ", "p", "o", "r", "t">>, <<"d">>),
      Present(4, <<"W">>), Present(5, <<" ", "b">>),
      Present(6, <<"c", " ", " ", "d">>), Present(7, <<"e", " ">>) }

InitNames == /\ NewFlagSetWithFlagKnownAs(ContinueOnError, "parameter")
             /\ IntSize = 64

NextNames ==
    \/ \E c \in NamesCatalogue : Var(c)
    \/ \E n \in {0, 2, 12} : SetUsageIndent(n)
    \/ PrintDefaultsCall

SpecNames == InitNames /\ [][NextNames]_vars

TypeOK ==
    /\ pc \in {"idle", "Parse", "exited", "panicked", "hung"}
    /\ Range(formal) \subseteq DOMAIN flags
    /\ ErrHelp.id \in 1..(MaxHelp + 1)

(***************************************************************************)
(* What the claims are stated with.                                        *)
(***************************************************************************)
\* The values of the flag records.
Vals(fs) == [i \in DOMAIN fs |-> fs[i].val]

\* What a Parse call leaves: the flag values and the triggered set.
Outcome(t) == [vals |-> Vals(t.w.flags), actual |-> t.w.actual]

\* The same with the positional arguments and the error.
FullOutcome(t) ==
    [vals |-> Vals(t.w.flags), actual |-> t.w.actual, args |-> t.w.args,
     err |-> t.err, end |-> t.end]

\* The argument lists of at most one token of T.
ShortLists(T) == {<<>>} \cup {<<x>> : x \in T}

\* A token that is not a flag: -, the empty token, or one without a
\* leading -.
NonFlagToken(tok) == tok = <<"-">> \/ tok = <<>> \/ Head(tok) # "-"

\* The name found at the head of the token by the scanner is h or help.
IsHelp(n) == n \in {<<"h">>, <<"h", "e", "l", "p">>}

(***************************************************************************)
(* C1.  Cluster equivalence: with the present flags a, b and c registered, *)
(* an argument list holding the cluster token -abc at any position (also   *)
(* as the only or the last token) leaves the same flag values and the same *)
(* triggered set as the list with -a, -b, -c in its place.                 *)
(***************************************************************************)
C1_ClusterEquivalence ==
    (pc = "idle" /\ {<<"a">>, <<"b">>, <<"c">>} \subseteq DOMAIN formal) =>
        \A pre \in ShortLists(ScanTokens), suf \in ShortLists(ScanTokens) :
            Outcome(Parse(World, pre \o << <<"-", "a", "b", "c">> >> \o suf))
            = Outcome(Parse(World, pre \o << <<"-", "a">>, <<"-", "b">>,
                                            <<"-", "c">> >> \o suf))

(***************************************************************************)
(* C2.  Attached-value equivalence and alias identity: for the 1-arity     *)
(* flag registered as p with the alias port, each of the lists [-pV],      *)
(* [-p, V], [-p=V], [--port=V] and [--port, V] ends without error with the *)
(* one record, to which both names resolve, holding V.  C2_AttachedValue   *)
(* states it for the non-empty V that do not begin with =, and             *)
(* C2_AnyValue for every non-empty V.                                      *)
(***************************************************************************)
AttachedForms(V) ==
    { << <<"-", "p">> \o V >>,
      << <<"-", "p">>, V >>,
      << <<"-", "p", "=">> \o V >>,
      << <<"-", "-", "p", "o", "r", "t", "=">> \o V >>,
      << <<"-", "-", "p", "o", "r", "t">>, V >> }

HoldsValue(V) ==
    \A form \in AttachedForms(V) :
        LET t == Parse(World, form)
        IN /\ t.end = "return"
           /\ t.err = NoErr
           /\ t.w.formal[<<"p">>] = t.w.formal[<<"p", "o", "r", "t">>]
           /\ t.w.flags[t.w.formal[<<"p">>]].val = <<V>>
           /\ \A other \in AttachedForms(V) :
                  Vals(Parse(World, other).w.flags) = Vals(t.w.flags)

PlainValues == { <<"v">>, <<"8", "0">>, <<"-", "x">>, <<"a", "=", "b">> }

EqualsValues == { <<"=", "x">>, <<"=">> }

AliasRegistered ==
    /\ pc = "idle"
    /\ {<<"p">>, <<"p", "o", "r", "t">>} \subseteq DOMAIN formal

C2_AttachedValue == AliasRegistered => \A V \in PlainValues : HoldsValue(V)

C2_AnyValue ==
    AliasRegistered => \A V \in PlainValues \cup EqualsValues : HoldsValue(V)

C2_Witness ==
    /\ pc = "idle"
    /\ Has(actual, <<"p">>)
    /\ formal[<<"p">>] = formal[<<"p", "o", "r", "t">>]
    /\ flags[formal[<<"p", "o", "r", "t">>]].val = << <<"v">> >>

(***************************************************************************)
(* C3.  With interspersion disabled, when the scanner classifies a token   *)
(* that is -- or a non-flag token, the scan ends there: the non-flag token *)
(* and all the tokens behind it (for --, the tokens behind it) are the     *)
(* positional arguments, in their order and no others, and no flag value   *)
(* or triggered entry changes.                                             *)
(***************************************************************************)
C3_ScanStops ==
    [][ ( /\ pc = "Parse"
          /\ ~allowIntersperse
          /\ procFlag = Empty
          /\ procArgs # <<>>
          /\ (NonFlagToken(Head(procArgs)) \/ Head(procArgs) = <<"-", "-">>) )
        => /\ args' = IF NonFlagToken(Head(procArgs)) THEN procArgs
                      ELSE Tail(procArgs)
           /\ procArgs' = <<>>
           /\ pc' = "idle"
           /\ ret' = NoErr
           /\ flags' = flags
           /\ actual' = actual ]_vars

C3_Witness ==
    /\ pc = "idle"
    /\ ~allowIntersperse
    /\ args = << <<"v">>, <<"-", "a">> >>
    /\ Has(formal, <<"a">>)
    /\ ~Has(actual, <<"a">>)

(***************************************************************************)
(* C4.  With interspersion enabled a non-flag token becomes a positional   *)
(* argument, behind the ones found before it, and the scan goes on with    *)
(* the next token; [-a, data, -b] leaves the same flag values, triggered   *)
(* set, positional arguments and result as [-a, -b, data].                 *)
(***************************************************************************)
C4_Interspersed ==
    /\ []( ( /\ pc = "idle"
             /\ allowIntersperse
             /\ {<<"a">>, <<"b">>} \subseteq DOMAIN formal )
           => LET t == Parse(World, << <<"-", "a">>, <<"v">>, <<"-", "b">> >>)
                  u == Parse(World, << <<"-", "a">>, <<"-", "b">>, <<"v">> >>)
              IN /\ FullOutcome(t) = FullOutcome(u)
                 /\ t.w.args = << <<"v">> >>
                 /\ {<<"a">>, <<"b">>} \subseteq DOMAIN t.w.actual )
    /\ [][ ( /\ pc = "Parse"
             /\ allowIntersperse
             /\ procFlag = Empty
             /\ procArgs # <<>>
             /\ NonFlagToken(Head(procArgs)) )
           => /\ args' = Append(args, Head(procArgs))
              /\ procArgs' = Tail(procArgs)
              /\ pc' = "Parse"
              /\ ret' = NoErr
              /\ flags' = flags
              /\ actual' = actual ]_vars

\* The positional argument v was collected, and the scanner is in the
\* cluster -abc behind it.
C4_Witness ==
    /\ pc = "Parse"
    /\ allowIntersperse
    /\ args = << <<"v">> >>
    /\ procFlag = <<"b", "c">>
    /\ Has(actual, <<"a">>)

(***************************************************************************)
(* C5.  Implicit help: when the scanner finds the name h or help and the   *)
(* name is not registered, usage is called and the Parse call ends with    *)
(* the help-requested error, the value of ErrHelp; when the name is        *)
(* registered, also after earlier help requests, it is resolved as any     *)
(* registered flag: no help error, and with no value attached the flag is  *)
(* set and triggered, there is no error and usage is not called.           *)
(***************************************************************************)
C5_ImplicitHelp ==
    /\ []( pc = "idle" =>
             \A tok \in { <<"-", "h">>, <<"-", "-", "h", "e", "l", "p">> } :
                LET n == IF Len(tok) = 2 THEN <<"h">>
                         ELSE <<"h", "e", "l", "p">>
                    t == Parse(World, <<tok>>)
                IN IF n \in DOMAIN formal
                   THEN /\ t.end = "return"
                        /\ t.err = NoErr
                        /\ t.w.usageCalls = 0
                        /\ t.w.flags[formal[n]].val = <<TrueStr>>
                        /\ Has(t.w.actual, n)
                   ELSE /\ t.err.kind = "help"
                        /\ t.err = t.w.ErrHelp
                        /\ t.w.usageCalls = 1
                        /\ Vals(t.w.flags) = Vals(flags)
                        /\ t.w.actual = actual )
    /\ [][ pc = "Parse" =>
             LET s == parseOne(World)
                 n == s.flagName
             IN (~s.finished /\ s.err = NoErr /\ IsHelp(n)) =>
                  IF n \notin DOMAIN formal
                  THEN /\ usageCalls' = usageCalls + 1
                       /\ ret'.kind = "help"
                       /\ ret' = ErrHelp'
                       /\ pc' # "Parse"
                  ELSE /\ ret'.kind # "help"
                       /\ ErrHelp' = ErrHelp
                       /\ s.w.procFlag = Empty =>
                            /\ ret' = NoErr
                            /\ usageCalls' = usageCalls
                            /\ pc' = "Parse"
                            /\ flags'[formal[n]].val = <<TrueStr>>
                            /\ Has(actual', n) ]_vars

\* help was requested implicitly, then registered, then set by --help.
C5_Witness ==
    /\ pc = "idle"
    /\ ErrHelp.id > 1
    /\ Has(actual, <<"h", "e", "l", "p">>)
    /\ flags[formal[<<"h", "e", "l", "p">>]].val = <<TrueStr>>
    /\ ret = NoErr
    /\ usageCalls = 0

(***************************************************************************)
(* C6.  The help-requested error is one sentinel: ErrHelp keeps the value  *)
(* it had before any Parse call, and every Parse call that ends with the   *)
(* help-requested error ends with that value and its text.                 *)
(***************************************************************************)
C6_OneSentinel ==
    /\ ErrHelp = ErrHelpInit
    /\ ret.kind = "help" => ret = ErrHelpInit

(***************************************************************************)
(* C7.  Error policy dispatch: a turn of Parse that ends with an error     *)
(* returns it under ContinueOnError, exits under ExitOnError, with code 0  *)
(* for the help-requested error and 2 for any other, and panics with it    *)
(* under PanicOnError; without an error there is no exit and no panic, and *)
(* with h or help registered, -h or --help returns normally.               *)
(***************************************************************************)
C7_ErrorPolicy ==
    /\ []( pc = "idle" =>
             \A n \in { <<"h">>, <<"h", "e", "l", "p">> } :
                n \in DOMAIN formal =>
                   LET t == Parse(World, << flagWithMinus(n) >>)
                   IN t.end = "return" /\ t.err = NoErr )
    /\ [][ pc = "Parse" =>
             IF ret' # NoErr
             THEN CASE errorHandling = ContinueOnError ->
                         pc' = "idle" /\ exitCode' = -1 /\ panicVal' = ""
                    [] errorHandling = ExitOnError ->
                         /\ pc' = "exited"
                         /\ exitCode' = IF ret'.kind = "help" THEN 0 ELSE 2
                         /\ panicVal' = ""
                    [] errorHandling = PanicOnError ->
                         pc' = "panicked" /\ panicVal' = "error"
                                          /\ exitCode' = -1
             ELSE /\ pc' \in {"Parse", "idle"}
                  /\ exitCode' = -1
                  /\ panicVal' = "" ]_vars

C7_Witness ==
    /\ pc = "exited"
    /\ errorHandling = ExitOnError
    /\ ret.kind = "help"
    /\ exitCode = 0

(***************************************************************************)
(* C8.  A parse error ends the Parse call at the failing token: while the  *)
(* loop runs no error has been reported, under ContinueOnError the turn    *)
(* that fails returns its error without adding a positional argument, and  *)
(* after the return no token is resolved or added to the positional        *)
(* arguments.                                                              *)
(***************************************************************************)
C8_FirstErrorEnds ==
    /\ [](pc = "Parse" => ret = NoErr)
    /\ [][ (pc = "Parse" /\ ret' # NoErr /\ errorHandling = ContinueOnError)
           => pc' = "idle" /\ args' = args ]_vars
    /\ [][ (pc = "idle" /\ ret # NoErr /\ pc' # "Parse")
           => /\ ret' = ret
              /\ args' = args
              /\ procArgs' = procArgs
              /\ actual' = actual
              /\ \A i \in DOMAIN flags : flags'[i].val = flags[i].val ]_vars

\* The call returned the error of -z and left the token behind it.
C8_Witness ==
    /\ pc = "idle"
    /\ errorHandling = ContinueOnError
    /\ ret.kind = "unknown"
    /\ procArgs = << <<"-", "a">> >>
    /\ Has(formal, <<"a">>)
    /\ ~Has(actual, <<"a">>)

(***************************************************************************)
(* C9.  Resolving a name that is not registered and is not h or help ends  *)
(* with the unknown-flag error, whose text holds the label FlagKnownAs of  *)
(* the registry and the flag as -x for a name of one code point and as     *)
(* --name otherwise; no flag value and no triggered entry changes.         *)
(***************************************************************************)
C9_UnknownFlag ==
    [][ pc = "Parse" =>
          LET s == parseOne(World)
              n == s.flagName
          IN ( /\ ~s.finished
               /\ s.err = NoErr
               /\ n # Empty
               /\ n \notin DOMAIN formal
               /\ ~IsHelp(n) )
             => /\ ret'.kind = "unknown"
                /\ ret'.label = <<FlagKnownAs>>
                /\ ret'.flag = IF Len(n) = 1 THEN <<"-">> \o n
                               ELSE <<"-", "-">> \o n
                /\ Vals(flags') = Vals(flags)
                /\ actual' = actual ]_vars

C9_Witness ==
    /\ ret.kind = "unknown"
    /\ ret.flag = <<"-", "-", "z", "z">>
    /\ ret.label = <<"option">>
    /\ Has(actual, <<"a">>)

(***************************************************************************)
(* C10.  Name uniqueness: unless registration has panicked, every          *)
(* registered name maps to the one record that lists it; a Var call with   *)
(* a name that is already registered panics, under every error policy,     *)
(* and changes nothing that a Parse call returned.                         *)
(***************************************************************************)
NamesOf(fl) == {fl.Name[k] : k \in 1..Len(fl.Name)}

NamesAgree ==
    /\ \A n \in DOMAIN formal : n \in NamesOf(flags[formal[n]])
    /\ \A i \in Range(formal) : \A n \in NamesOf(flags[i]) :
           Has(formal, n) /\ formal[n] = i

C10_NameUniqueness ==
    /\ [](pc # "panicked" => NamesAgree)
    /\ [][ \A c \in Catalogue :
             (Var(c) /\ NamesOf(NewFlag(c)) \cap DOMAIN formal # {})
             => /\ pc' = "panicked"
                /\ panicVal' = "redefinition"
                /\ ret' = ret ]_vars

C10_Witness ==
    /\ pc = "panicked"
    /\ panicVal = "redefinition"
    /\ errorHandling = ContinueOnError
    /\ parsed

(***************************************************************************)
(* C11.  VisitAll calls fn on the registered flags in the strict order of  *)
(* their first names: every registered flag is visited, and of two flags   *)
(* visited the earlier has the smaller first name, so that no flag and no  *)
(* first name is visited twice.                                            *)
(***************************************************************************)
C11_VisitAllOrder ==
    [][ VisitAll =>
          /\ \A i \in 1..Len(visited') : visited'[i] # Nil
          /\ {visited'[i] : i \in 1..Len(visited')} = Range(formal)
          /\ \A i, j \in 1..Len(visited') :
                 i < j => Less(flags[visited'[i]].Name[1],
                               flags[visited'[j]].Name[1]) ]_vars

(***************************************************************************)
(* C12.  Visit calls fn with the flags that were set and no others: while  *)
(* nothing was set it calls fn zero times, and afterwards every flag it    *)
(* hands to fn is a record (not nil) of the triggered set and every flag   *)
(* of the triggered set is handed to fn.                                   *)
(***************************************************************************)
C12_VisitOnlySet ==
    [][ Visit =>
          /\ (actual = <<>> => visited' = <<>>)
          /\ \A i \in 1..Len(visited') : visited'[i] # Nil
          /\ {visited'[i] : i \in 1..Len(visited')} = Range(actual) ]_vars

(***************************************************************************)
(* C13.  The triggered mapping is part of the formal mapping: a triggered  *)
(* name is registered, for the same record; and a name is triggered only   *)
(* if a Set of the record's value succeeded, so never the name of a flag   *)
(* whose callback fails on every call, whatever its arity.                 *)
(***************************************************************************)
C13_TriggeredSubset ==
    \A n \in DOMAIN actual :
        /\ Has(formal, n)
        /\ formal[n] = actual[n]
        /\ ~(flags[actual[n]].kind = "func" /\ flags[actual[n]].fails)

(***************************************************************************)
(* C14.  Each Parse call resets the triggered set: when a Parse call has   *)
(* returned, every triggered name is a name that the argument list of      *)
(* that call names, and after Parse of the empty list no name is           *)
(* triggered.                                                              *)
(***************************************************************************)
\* The names a token can stand for: the name of a long flag, the code
\* points of a token of short flags.
NamedBy(tok) ==
    IF Len(tok) > 2 /\ tok[1] = "-" /\ tok[2] = "-"
    THEN {Tail2(splitOn(tok, "=", 2).out[1])}
    ELSE IF Len(tok) > 1 /\ tok[1] = "-"
    THEN {<<tok[k]>> : k \in 2..Len(tok)}
    ELSE {}

Named(a) == UNION {NamedBy(a[k]) : k \in 1..Len(a)}

C14_ParseResetsTriggered ==
    pc = "idle" =>
        \A a \in ArgLists(VisitTokens) :
            DOMAIN Parse(World, a).w.actual \subseteq Named(a)

(***************************************************************************)
(* C15.  Parsing again does not restore defaults: DefValue is the text of  *)
(* the value the flag was registered with and no step changes it; a turn   *)
(* of Parse changes the value of no flag but the one whose name it         *)
(* resolves, and a Parse call leaves the value of every flag that its      *)
(* argument list does not name as it was.                                  *)
(***************************************************************************)
C15_NoRestore ==
    /\ [](\A c \in VisitCatalogue :
             c.id \in DOMAIN flags =>
                 flags[c.id].DefValue = ValueString(c.kind, c.val))
    /\ [](pc = "idle" =>
             \A a \in ArgLists(VisitTokens) : \A i \in DOMAIN flags :
                 NamesOf(flags[i]) \cap Named(a) = {} =>
                     Parse(World, a).w.flags[i].val = flags[i].val)
    /\ [][ \A i \in DOMAIN flags :
              /\ flags'[i].DefValue = flags[i].DefValue
              /\ (pc = "Parse" /\ flags'[i].val # flags[i].val)
                     => LET n == parseOne(World).flagName
                        IN Has(formal, n) /\ formal[n] = i ]_vars

\* A Parse call was made with MaxArgs tokens, none of which is resolved
\* yet, while the flag a holds the value v of an earlier Parse call and m
\* is not set.
C15_Witness ==
    /\ pc = "Parse"
    /\ Len(procArgs) = MaxArgs
    /\ procFlag = Empty
    /\ Has(formal, <<"a">>)
    /\ flags[formal[<<"a">>]].val = << <<"v">> >>
    /\ flags[formal[<<"a">>]].DefValue = <<"d">>
    /\ \A k \in 1..Len(procArgs) : procArgs[k] = <<"-", "m">>

(***************************************************************************)
(* C18.  A failing Set fails the Parse call: when a turn of Parse resolves *)
(* a registered name and the Set it makes on the flag's value, with no     *)
(* token, one token or ArgsNeeded tokens, returns an error, then the turn  *)
(* ends with an error that holds that error (a range error as such, not    *)
(* as a syntax error), the flag as it is displayed and the tokens given.   *)
(* C18_FromOneValue states the same for the flags that need a value.       *)
(***************************************************************************)
\* The tokens that the turn of parseFlagArg for the name n hands to Set,
\* in a sequence of one element; the empty sequence when it calls no Set.
SetInput(w, n) ==
    LET fl == w.flags[w.formal[n]]
    IN CASE fl.ArgsNeeded = 0 -> << <<>> >>
         [] fl.ArgsNeeded = 1 ->
                IF w.procFlag # Empty THEN << <<w.procFlag>> >>
                ELSE IF w.procArgs # <<>> THEN << <<w.procArgs[1]>> >>
                ELSE <<>>
         [] OTHER ->
                IF w.procFlag = Empty /\ Len(w.procArgs) >= fl.ArgsNeeded
                THEN << SubSeq(w.procArgs, 1, fl.ArgsNeeded) >>
                ELSE <<>>

\* The turn from the FlagSet w of the running Parse call: if its Set fails,
\* for a flag of at least minArgs values, the error of the turn carries
\* the failure.
SetFailureReported(minArgs) ==
    pc = "Parse" =>
        LET s == parseOne(World)
            n == s.flagName
        IN (~s.finished /\ s.err = NoErr /\ Has(formal, n)
            /\ flags[formal[n]].ArgsNeeded >= minArgs
            /\ SetInput(s.w, n) # <<>>
            /\ ValueSet(flags[formal[n]], SetInput(s.w, n)[1]).err # "nil")
           => /\ ret'.kind = "invalid"
              /\ ret'.cause
                    = ValueSet(flags[formal[n]], SetInput(s.w, n)[1]).err
              /\ ret'.flag = flagWithMinus(n)
              /\ ret'.input = SetInput(s.w, n)[1]
              /\ ret'.label = <<FlagKnownAs>>
              /\ pc' = "idle"

C18_SetFailureFailsParse == [][SetFailureReported(0)]_vars

C18_FromOneValue == [][SetFailureReported(1)]_vars

(***************************************************************************)
(* C20.  Usage is called on every failure of Parse: a turn of Parse that   *)
(* ends with an error, of whatever kind, the help request included, has    *)
(* called the usage function once, and it is the only call of the Parse    *)
(* call.                                                                   *)
(***************************************************************************)
C20_UsageOnFailure ==
    [][ (pc = "Parse" /\ ret' # NoErr) =>
            usageCalls = 0 /\ usageCalls' = 1 ]_vars

(***************************************************************************)
(* C19.  A flag record keeps its names, in their order, and its arity: no  *)
(* step changes the Name list or ArgsNeeded of a registered flag, and a    *)
(* second PrintDefaults call writes the lines of the first, in the same    *)
(* order.                                                                  *)
(***************************************************************************)
C19_RecordImmutable ==
    /\ [](pc = "idle" =>
             PrintDefaultsLines(PrintDefaults(World))
             = PrintDefaultsLines(World))
    /\ [][ \A i \in DOMAIN flags :
              /\ flags'[i].Name = flags[i].Name
              /\ flags'[i].ArgsNeeded = flags[i].ArgsNeeded ]_vars

(***************************************************************************)
(* C16.  Set does not change the value when it fails: a Set call on a      *)
(* bool, int, uint, float64 or duration flag with a token that is not of   *)
(* its syntax returns an error, and a Set call that returns an error       *)
(* leaves the value of the flag as it was before the call.                 *)
(***************************************************************************)
C16_SetKeepsOnFailure ==
    [][ \A n \in ValueNames : \A tok \in ValueTokens :
          (Has(formal, n) /\ Set(n, <<tok>>)) =>
              /\ tok = <<"x">> => setErr' # NoErr
              /\ setErr' # NoErr =>
                     flags'[formal[n]].val = flags[formal[n]].val ]_vars

(***************************************************************************)
(* C17.  Width of int and uint: with an int of 32 bits, Set of an int flag *)
(* to 2147483648 and Set of a uint flag to 4294967296 fail with a range    *)
(* error and do not store the number cut to 32 bits; on every platform a   *)
(* Set with a number that does not fit the width of the flag fails with a  *)
(* range error.                                                            *)
(***************************************************************************)
\* The tokens of numbers that an int or uint of the width bits cannot hold.
TooWide(kind, bits) ==
    {tok \in ValueTokens :
        /\ ParseUint(tok).err = "nil"
        /\ IF kind = "int"
           THEN ~BigLess(ParseUint(tok).val,
                         IF bits = 32 THEN <<0, 32768>> ELSE Two63)
           ELSE Len(ParseUint(tok).val) > bits \div 16}

C17_WidthRange ==
    [][ \A n \in { <<"i">>, <<"u">> } : \A tok \in ValueTokens :
          (Has(formal, n) /\ Set(n, <<tok>>)) =>
              LET fl == flags[formal[n]]
              IN tok \in TooWide(fl.kind, IntSize) =>
                    /\ setErr'.cause = "range"
                    /\ flags'[formal[n]].val
                          # Truncate(ToWord(ParseUint(tok).val, 4), IntSize)
        ]_vars

(***************************************************************************)
(* C21.  NFlag counts the flags that have been set: whatever Set and Parse *)
(* calls were made, NFlag() is the number of distinct flag records that    *)
(* the triggered set holds, also when one of them was set under several of *)
(* its names.                                                              *)
(***************************************************************************)
C21_NFlagCountsFlags ==
    pc = "idle" => NFlag(World) = Cardinality(Range(actual))

(***************************************************************************)
(* C22.  Parse runs to completion: under the policy that hands the error   *)
(* on, a Parse call that was made returns; a turn of its loop ends the     *)
(* loop, or takes a token off the argument list, or leaves the list as it  *)
(* is and takes a code point off the buffer of the cluster; and Parsed()   *)
(* is true from the first Parse call on.                                   *)
(***************************************************************************)
\* The turn t of the loop ends it or consumes.
Consumes(t) ==
    \/ t.end # "continue"
    \/ Len(t.w.procArgs) < Len(procArgs)
    \/ t.w.procArgs = procArgs /\ Len(t.w.procFlag) < Len(procFlag)

C22_ParseCompletes ==
    /\ (pc = "Parse") ~> (pc = "idle")
    /\ [](pc = "Parse" => Consumes(ParseIter(World)))
    /\ [](pc = "Parse" => Parsed(World))
    /\ [](Parsed(World) => []Parsed(World))

\* The loop is in the middle of a cluster, with a token behind it, in a
\* FlagSet that holds the flag of two values.
C22_Witness ==
    /\ pc = "Parse"
    /\ procFlag # Empty
    /\ Len(procArgs) > 0
    /\ Has(formal, <<"n">>)
    /\ Parsed(World)

(***************************************************************************)
(* What a turn of Parse is about to resolve.                               *)
(***************************************************************************)
\* The turn that the state is at resolves a registered name.
Resolves ==
    /\ pc = "Parse"
    /\ ~parseOne(World).finished
    /\ Has(formal, parseOne(World).flagName)

\* The flag of that name, and the buffer and the tokens that the scanner
\* leaves to the resolver.
ResolvedName == parseOne(World).flagName

ResolvedId == formal[ResolvedName]

LeftFlag == parseOne(World).w.procFlag

LeftArgs == parseOne(World).w.procArgs

\* The turn leaves the values and the triggered set as they were.
NothingAssigned == Vals(flags') = Vals(flags) /\ actual' = actual

(***************************************************************************)
(* C23.  Values that are missing or wrongly attached are errors raised     *)
(* before any assignment: a turn of Parse that resolves a flag of one      *)
(* value with no buffer and no token left ends with the needs-a-parameter  *)
(* error; one that resolves a flag of N > 1 values ends with an error when *)
(* a buffer is attached and with the not-enough-parameters error when      *)
(* fewer than N tokens are left, and otherwise hands the next N tokens, in *)
(* their order, to Set.  In the error cases no value changes and the       *)
(* triggered set stays as it was.                                          *)
(***************************************************************************)
C23_MissingValues ==
    [][ Resolves =>
          LET N == flags[ResolvedId].ArgsNeeded
          IN /\ (N = 1 /\ LeftFlag = Empty /\ LeftArgs = <<>>) =>
                    ret'.kind = "needs" /\ NothingAssigned
             /\ (N > 1 /\ LeftFlag # Empty) =>
                    ret'.kind = "more" /\ NothingAssigned
             /\ (N > 1 /\ LeftFlag = Empty /\ Len(LeftArgs) < N) =>
                    ret'.kind = "notenough" /\ NothingAssigned
             /\ (N > 1 /\ LeftFlag = Empty /\ Len(LeftArgs) >= N) =>
                    /\ ret' = NoErr
                    /\ flags'[ResolvedId].val = SubSeq(LeftArgs, 1, N)
                    /\ Has(actual', ResolvedName) ]_vars

\* Parse has returned the not-enough-parameters error for n, whose callback
\* was not called, behind the flag a, which it has set.
C23_Witness ==
    /\ pc = "idle"
    /\ ret.kind = "notenough"
    /\ Has(formal, <<"n">>)
    /\ flags[formal[<<"n">>]].val = <<>>
    /\ ~Has(actual, <<"n">>)
    /\ Has(actual, <<"a">>)

(***************************************************************************)
(* C24.  A flag of N > 1 values consumes them: after the turn of Parse     *)
(* that resolves it without error, the tokens left to scan are those       *)
(* behind its N-th value.                                                  *)
(***************************************************************************)
C24_ValuesConsumed ==
    [][ (Resolves /\ flags[ResolvedId].ArgsNeeded > 1 /\ ret' = NoErr) =>
            procArgs' = From(LeftArgs, flags[ResolvedId].ArgsNeeded + 1)
      ]_vars

(***************************************************************************)
(* C25.  A long-flag token that holds = is split once, on its first =:     *)
(* the scanner hands on the text between the leading -- and the first = as *)
(* the name, and keeps all the text behind the first =, which may be empty *)
(* or hold further =, as the attached value; it reports an error exactly   *)
(* when that name is empty.  So --port= hands on the name port.            *)
(***************************************************************************)
\* The index of the first = of s, or 0.
RECURSIVE FirstEquals(_, _)
FirstEquals(s, i) ==
    IF i > Len(s) THEN 0
    ELSE IF s[i] = "=" THEN i ELSE FirstEquals(s, i + 1)

\* The token the scanner is at is a long flag that holds =.
AtLongEquals ==
    /\ pc = "Parse"
    /\ procFlag = Empty
    /\ Len(procArgs) > 0
    /\ Len(procArgs[1]) > 2
    /\ SubSeq(procArgs[1], 1, 2) = <<"-", "-">>
    /\ FirstEquals(procArgs[1], 1) > 0

C25_LongSplitOnce ==
    AtLongEquals =>
        LET a == procArgs[1]
            e == FirstEquals(a, 1)
            s == parseOne(World)
        IN /\ s.long
           /\ s.flagName = SubSeq(a, 3, e - 1)
           /\ s.w.procFlag = From(a, e + 1)
           /\ s.w.procArgs = Tail(procArgs)
           /\ (s.err # NoErr) <=> (e = 3)

(***************************************************************************)
(* C26.  The = behind a member of a cluster: with the present flag a and   *)
(* the flag p of one value registered, the list [-ap=V, x] leaves p with   *)
(* the value that the list [-p=V, x] leaves it with, which is V.           *)
(***************************************************************************)
C26_ClusterEquals ==
    (pc = "idle" /\ {<<"a">>, <<"p">>} \subseteq DOMAIN formal) =>
        LET c == Parse(World, << <<"-", "a", "p", "=", "v">>, <<"x">> >>)
            s == Parse(World, << <<"-", "p", "=", "v">>, <<"x">> >>)
        IN /\ s.w.flags[formal[<<"p">>]].val = << <<"v">> >>
           /\ c.w.flags[formal[<<"p">>]].val = s.w.flags[formal[<<"p">>]].val

(***************************************************************************)
(* C28.  No input is dropped without notice: when Parse returns nil, the   *)
(* buffer of the cluster is empty, so that every code point of every       *)
(* cluster was resolved as a flag or taken as an attached value.           *)
(***************************************************************************)
C28_NothingDropped ==
    [][ (pc = "Parse" /\ pc' = "idle" /\ ret' = NoErr) =>
            procFlag' = Empty ]_vars

(***************************************************************************)
(* C27.  The column of the usage texts: with any flags registered, the     *)
(* width that PrintDefaults computes is the largest number of columns      *)
(* among the first names of the registered flags, plus 4, or plus 8 when   *)
(* a flag has more than one name; the line break it puts in the usage      *)
(* texts is followed by that many spaces, or by as many spaces as the      *)
(* usage indent when that is not zero.                                     *)
(***************************************************************************)
\* The largest number of columns among the first names of the flags ids.
MaxWidth(ids) ==
    IF ids = {} THEN 0
    ELSE LET i == CHOOSE i \in ids :
                      \A j \in ids : StringWidth(flags[j].Name[1])
                                     <= StringWidth(flags[i].Name[1])
         IN StringWidth(flags[i].Name[1])

Column ==
    MaxWidth(Range(formal))
    + IF \E i \in Range(formal) : Len(flags[i].Name) > 1 THEN 8 ELSE 4

C27_UsageColumn ==
    pc = "idle" =>
        /\ padN(World) = Column
        /\ pad(World) = <<"\n">> \o [k \in 1..(IF usageIndent = 0 THEN Column
                                               ELSE usageIndent) |-> " "]

(***************************************************************************)
(* C29.  Registration terminates: Var returns or panics for every string   *)
(* of names, also for one with a leading space or with two spaces in a     *)
(* row.                                                                    *)
(***************************************************************************)
C29_VarTerminates == pc # "hung"

(***************************************************************************)
(* C30.  A rejected token changes nothing: the turn of Parse that ends     *)
(* with the unwanted-argument error, for a flag of no value written in the *)
(* long form with a value attached, leaves the value of every flag and the *)
(* triggered set as they were.                                             *)
(***************************************************************************)
C30_RejectedChangesNothing ==
    [][ (pc = "Parse" /\ ret'.kind = "unwanted") => NothingAssigned ]_vars

====
